---- MODULE Spec2Model ----
(* Model of src/bot.py: a Telegram bot that reports three spreadsheet totals   *)
(* from an in-memory cache (cell_cache) refreshed by a repeating job, and that *)
(* keeps an access list in a JSON file edited through an add/remove            *)
(* conversation.                                                               *)
(*                                                                             *)
(* Every handler is one atomic action: the application dispatches updates one  *)
(* at a time, and neither update_cache nor the load-modify-save part of a      *)
(* handler contains an await.  That this is so is itself checked on a second   *)
(* layer (SpecSubmit, SpecTicks), in which process_user_id and update_cache    *)
(* are followed statement by statement under the event loop's scheduling.      *)
(* Non-ASCII interface texts of the source are written here as ASCII           *)
(* stand-ins.                                                                  *)
EXTENDS Integers, Sequences, FiniteSets, TLC

(***************************************************************************)
(* Bounds of the model                                                     *)
(***************************************************************************)
\* Telegram identities, as senders and as submitted ids, are 1..MaxId.
MaxId == 2
\* The marker phrase of a sheet is found in one of the rows 1..MaxRow.
MaxRow == 2
\* The chat the bot is talked to in: a group chat, in which every identity
\* writes.  chat_data is kept per chat and the conversation state per (chat,
\* user), so this is the setting in which the two can differ.
Chats == {"c1"}
\* What a read of a cell can return: the empty cell and one non-empty total.
CellValues == {"", "100"}

Users == 1 .. MaxId
Keys == {"income", "consumption", "cash"}

(***************************************************************************)
(* Configuration (class Config, class States)                              *)
(***************************************************************************)
\* ADMIN_ID comes from the environment; here the admin is identity 1.
ADMIN_ID == 1

SHEET_CONFIG ==
    [income      |-> [sheet_name |-> "Sheet1", search_phrase |-> "Total income",   title |-> "income"],
     consumption |-> [sheet_name |-> "Sheet2", search_phrase |-> "Total expenses", title |-> "expenses"],
     cash        |-> [sheet_name |-> "Sheet3", search_phrase |-> "Total in cash",  title |-> "in cash"]]

\* Iteration order of the SHEET_CONFIG dict (insertion order).
KeyOrder == <<"income", "consumption", "cash">>

TEXTS ==
    [main_button   |-> "Get total",
     add_button    |-> "Add user",
     remove_button |-> "Remove user",
     na_value      |-> "N/A"]

AWAIT_USER_ID_ADD == 1
AWAIT_USER_ID_REMOVE == 2
\* No conversation state: the key is absent (chat_data.get gives None, the
\* conversation handler has no entry, or a handler returned END).
NoState == 0

\* Python's None for a sheet or a value, and for a position (both are falsy).
None == "None"
NoPos == << >>

\* Outcomes of a cell read that raises, and of a cycle that has not happened.
ReadError == "#error"
NotRead == "#notread"

Range(s) == { s[i] : i \in 1 .. Len(s) }

VARIABLES
    pc,             \* "start" before post_init has run, "running" after
    cell_cache,     \* cell_cache: key -> [sheet, pos, value]
    lastRead,       \* what the reads of the last refresh cycle return(ed), per key
    file,           \* the allowed-users file
    conversations,  \* conversation handler state per (chat, user)
    chat_data,      \* chat_data["current_state"] per chat
    update,         \* the update, or the job, the last step handled
    io,             \* outcome of the file accesses of the last step
    reply,          \* what the last step sent
    tasks           \* the event loop's tasks that are run statement by statement

vars == <<pc, cell_cache, lastRead, file, conversations, chat_data, update, io, reply, tasks>>

cacheVars == <<pc, cell_cache, lastRead>>
accessVars == <<file, conversations, chat_data>>

(***************************************************************************)
(* Tasks of the event loop                                                 *)
(***************************************************************************)
\* The handlers of two pending updates and two firings of the repeating job
\* can be followed statement by statement.
Handlers == {1, 2}
Ticks == {1, 2}

\* A run of process_user_id: where it is, its current_state and user_id, the
\* outcomes its file accesses have, and the user_data it holds.
IdleRun == [stage |-> "idle", state |-> 0, user_id |-> 0,
            ld |-> TRUE, sv |-> "ok", user_data |-> [admin_id |-> 0, allowed_users |-> << >>]]

\* base: the file when the two updates arrived; tick[t]: the index in
\* KeyOrder of the key the firing t of update_cache handles next, 0 when it
\* does not run.
IdleTasks == [base |-> [state |-> "absent", admin_id |-> 0, allowed_users |-> << >>],
              sub  |-> [h \in Handlers |-> IdleRun],
              tick |-> [t \in Ticks |-> 0]]

(***************************************************************************)
(* Messages                                                                *)
(***************************************************************************)
NoLines == [k \in Keys |-> ""]

Message(kind, arg, listing, lines, keyboard) ==
    [kind |-> kind, arg |-> arg, listing |-> listing, lines |-> lines, keyboard |-> keyboard]

NoReply == Message("none", 0, << >>, NoLines, "none")
\* A step that handles no update: a job of the given name, or nothing yet.
Job(name) == [chat |-> "none", user |-> 0, text |-> name]
NoUpdate == Job("")
NoIO == [load |-> TRUE, save |-> "none"]

\* Texts an update can carry.
IntTexts == { ToString(i) : i \in Users }
Texts == {TEXTS.main_button, TEXTS.add_button, TEXTS.remove_button,
          "/start", "/cancel", "abc"} \cup IntTexts

\* filters.COMMAND
IsCommand(text) == text \in {"/start", "/cancel"}

\* int(text): the texts that parse, and what they parse to.
IsInt(text) == \E i \in Users : ToString(i) = text
ParseInt(text) == CHOOSE i \in Users : ToString(i) = text

(***************************************************************************)
(* The allowed-users file                                                  *)
(***************************************************************************)
NoFile == [state |-> "absent", admin_id |-> 0, allowed_users |-> << >>]
CorruptFile == [state |-> "corrupt", admin_id |-> 0, allowed_users |-> << >>]
DefaultUsers == [admin_id |-> ADMIN_ID, allowed_users |-> << >>]

\* load_users: the default when the file is missing, and when open or
\* json.load raises (ok = FALSE: the read fails; a corrupt file never parses).
read_users(f, ok) ==
    IF f.state = "absent" THEN DefaultUsers
    ELSE IF f.state = "ok" /\ ok
         THEN [admin_id |-> f.admin_id, allowed_users |-> f.allowed_users]
         ELSE DefaultUsers

load_users(ok) == read_users(file, ok)

\* save_users: the file after the call.  The exception of a failed open or
\* of a failed write is logged and swallowed; open(.., "w") has truncated the
\* file by the time a write fails.
write_users(f, data, outcome) ==
    CASE outcome = "ok" -> [state |-> "ok", admin_id |-> data.admin_id,
                            allowed_users |-> data.allowed_users]
      [] outcome = "open_fails" -> f
      [] outcome = "write_fails" -> CorruptFile

save_users(data, outcome) == write_users(file, data, outcome)

SaveOutcomes == {"ok", "open_fails", "write_fails"}

\* list.remove(x): drops the first occurrence.
RECURSIVE ListRemove(_, _)
ListRemove(s, x) ==
    IF s = << >> THEN << >>
    ELSE IF Head(s) = x THEN Tail(s)
    ELSE <<Head(s)>> \o ListRemove(Tail(s), x)

(***************************************************************************)
(* Access                                                                  *)
(***************************************************************************)
create_keyboard(user_id, user_data) ==
    IF user_id = user_data.admin_id THEN "admin" ELSE "user"

\* A gate that forgets the allowed users.
check_access_admin_only(user_id, user_data) ==
    user_id = user_data.admin_id

check_access(user_id, user_data) ==
    ~ (user_id # user_data.admin_id /\ user_id \notin Range(user_data.allowed_users))

(***************************************************************************)
(* The value cache                                                         *)
(***************************************************************************)
\* What the finder and the first read give for one key at startup.
FindOutcomes ==
    [kind : {"not_found", "error"}, row : {0}, col : {0}, value : {None}]
    \cup [kind : {"found"}, row : 1 .. MaxRow, col : {1}, value : CellValues]

\* init_cache: ok = FALSE is initialize_google_sheets raising.
init_cache(cache, ok, find) ==
    IF ~ok THEN cache
    ELSE [key \in Keys |->
            IF find[key].kind = "found"
            THEN [sheet |-> SHEET_CONFIG[key].sheet_name,
                  pos   |-> <<find[key].row, find[key].col + 1>>,
                  value |-> find[key].value]
            ELSE cache[key]]

\* An except branch that drops the value it could not refresh.
OnReadErrorClears(cache, key) == [cache EXCEPT ![key].value = None]

\* The except branch of update_cache: logs, and the loop is over.
OnReadError(cache, key) == cache

RECURSIVE update_cache_from(_, _, _)
update_cache_from(cache, reads, i) ==
    IF i > Len(KeyOrder) THEN cache
    ELSE LET key == KeyOrder[i] IN
         IF cache[key].pos # NoPos /\ cache[key].sheet # None
         THEN IF reads[key] = ReadError
              THEN OnReadError(cache, key)
              ELSE update_cache_from([cache EXCEPT ![key].value = reads[key]], reads, i + 1)
         ELSE update_cache_from(cache, reads, i + 1)

\* A refresh that leaves the loop after its first key.
update_cache_first_only(cache, reads) ==
    LET key == KeyOrder[1] IN
    IF cache[key].pos # NoPos /\ cache[key].sheet # None /\ reads[key] # ReadError
    THEN [cache EXCEPT ![key].value = reads[key]]
    ELSE cache

update_cache(cache, reads) == update_cache_from(cache, reads, 1)

\* A rendering without the fallback to na_value.
DisplayValueRaw(value) == value

\* get_result's rendering of one cached value: value or na_value.
DisplayValue(value) ==
    IF value # None /\ value # "" THEN value ELSE TEXTS.na_value


(***************************************************************************)
(* Initial state: the module has been imported, nothing has run yet, and   *)
(* no allowed-users file has been written.                                 *)
(***************************************************************************)
Init ==
    /\ pc = "start"
    /\ cell_cache = [key \in Keys |-> [sheet |-> None, pos |-> NoPos, value |-> None]]
    /\ lastRead = [key \in Keys |-> NotRead]
    /\ file = NoFile
    /\ conversations = [cu \in Chats \X Users |-> NoState]
    /\ chat_data = [c \in Chats |-> NoState]
    /\ update = NoUpdate
    /\ io = NoIO
    /\ reply = NoReply
    /\ tasks = IdleTasks

(***************************************************************************)
(* Cache steps                                                             *)
(***************************************************************************)
\* post_init: init_cache runs once, before any update or job.
StartUp(finds) ==
    /\ pc = "start"
    /\ \E ok \in BOOLEAN, find \in finds :
          cell_cache' = init_cache(cell_cache, ok, find)
    /\ pc' = "running"
    /\ UNCHANGED <<lastRead, file, conversations, chat_data, update, io, reply, tasks>>

InitCache == StartUp([Keys -> FindOutcomes])

\* The resolution step run again on a running process.
ReInitCache ==
    /\ pc = "running"
    /\ \E ok \in BOOLEAN, find \in [Keys -> FindOutcomes] :
          cell_cache' = init_cache(cell_cache, ok, find)
    /\ update' = Job("init_cache")
    /\ io' = NoIO
    /\ reply' = NoReply
    /\ UNCHANGED <<pc, lastRead, file, conversations, chat_data, tasks>>

Resolved(cache, key) == cache[key].pos # NoPos /\ cache[key].sheet # None

\* What the reads of one cycle give: nothing for a key without a location.
ReadOutcomes(cache) ==
    { r \in [Keys -> CellValues \cup {ReadError, NotRead}] :
        \A key \in Keys : (r[key] = NotRead) <=> ~Resolved(cache, key) }

\* One tick of the repeating job (setup_job_queue).
UpdateCache ==
    /\ pc = "running"
    /\ \E reads \in ReadOutcomes(cell_cache) :
          /\ cell_cache' = update_cache(cell_cache, reads)
          /\ lastRead' = reads
    /\ update' = Job("update_cache")
    /\ io' = NoIO
    /\ reply' = NoReply
    /\ UNCHANGED <<pc, file, conversations, chat_data, tasks>>

(***************************************************************************)
(* Handlers.  c, u, text: the chat, the sender and the text of the update. *)
(* ld: whether the reads of the allowed-users file made by this run of the *)
(* handler succeed.                                                        *)
(***************************************************************************)
Handled(c, u, text, ioRec, msg) ==
    /\ update' = [chat |-> c, user |-> u, text |-> text]
    /\ io' = ioRec
    /\ reply' = msg
    /\ UNCHANGED <<cacheVars, tasks>>

start(c, u, text) ==
    \E ld \in BOOLEAN :
        /\ Handled(c, u, text, [load |-> ld, save |-> "none"],
              IF check_access(u, load_users(ld))
              THEN Message("start_message", 0, << >>, NoLines,
                           create_keyboard(u, load_users(ld)))
              ELSE Message("access_denied", u, << >>, NoLines, "none"))
        /\ UNCHANGED accessVars

get_result(c, u, text) ==
    \E ld \in BOOLEAN :
        /\ Handled(c, u, text, [load |-> ld, save |-> "none"],
              IF check_access(u, load_users(ld))
              THEN Message("result", 0, << >>,
                           [key \in Keys |-> DisplayValue(cell_cache[key].value)],
                           create_keyboard(u, load_users(ld)))
              ELSE Message("access_denied", u, << >>, NoLines, "none"))
        /\ UNCHANGED accessVars

\* entry: called as an entry point of the conversation handler, which then
\* records the returned state; a plain handler's return value is dropped.
add_user(c, u, text, entry) ==
    \E ld \in BOOLEAN :
        /\ chat_data' = [chat_data EXCEPT ![c] = AWAIT_USER_ID_ADD]
        /\ conversations' = IF entry
                            THEN [conversations EXCEPT ![<<c, u>>] = AWAIT_USER_ID_ADD]
                            ELSE conversations
        /\ Handled(c, u, text, [load |-> ld, save |-> "none"],
              Message("add_user_message", 0, load_users(ld).allowed_users, NoLines,
                      create_keyboard(u, load_users(ld))))
        /\ UNCHANGED file

remove_user(c, u, text, entry) ==
    \E ld \in BOOLEAN :
        /\ chat_data' = [chat_data EXCEPT ![c] = AWAIT_USER_ID_REMOVE]
        /\ conversations' = IF entry
                            THEN [conversations EXCEPT ![<<c, u>>] = AWAIT_USER_ID_REMOVE]
                            ELSE conversations
        /\ Handled(c, u, text, [load |-> ld, save |-> "none"],
              Message("remove_user_message", 0, load_users(ld).allowed_users, NoLines,
                      create_keyboard(u, load_users(ld))))
        /\ UNCHANGED file

process_user_id(c, u, text, user_id) ==
    \E ld \in BOOLEAN, sv \in SaveOutcomes :
        LET current_state == chat_data[c]
            user_data == load_users(ld)
            present == user_id \in Range(user_data.allowed_users)
        IN  CASE current_state = AWAIT_USER_ID_ADD ->
                   /\ file' = IF present THEN file
                              ELSE save_users([user_data EXCEPT
                                     !.allowed_users = Append(@, user_id)], sv)
                   /\ Handled(c, u, text,
                              [load |-> ld, save |-> IF present THEN "none" ELSE sv],
                              IF present
                              THEN Message("exists", 0, << >>, NoLines, "none")
                              ELSE Message("added", user_id, << >>, NoLines, "none"))
                   /\ chat_data' = [chat_data EXCEPT ![c] = NoState]
                   /\ conversations' = [conversations EXCEPT ![<<c, u>>] = NoState]
              [] current_state = AWAIT_USER_ID_REMOVE ->
                   /\ file' = IF present
                              THEN save_users([user_data EXCEPT
                                     !.allowed_users = ListRemove(@, user_id)], sv)
                              ELSE file
                   /\ Handled(c, u, text,
                              [load |-> ld, save |-> IF present THEN sv ELSE "none"],
                              IF present
                              THEN Message("removed", user_id, << >>, NoLines, "none")
                              ELSE Message("not_found", 0, << >>, NoLines, "none"))
                   /\ chat_data' = [chat_data EXCEPT ![c] = NoState]
                   /\ conversations' = [conversations EXCEPT ![<<c, u>>] = NoState]
              [] OTHER ->
                   /\ Handled(c, u, text, [load |-> ld, save |-> "none"],
                              Message("unknown_state", 0, << >>, NoLines, "none"))
                   /\ conversations' = [conversations EXCEPT ![<<c, u>>] = NoState]
                   /\ UNCHANGED <<file, chat_data>>

\* On ValueError the returned state is chat_data.get("current_state", END).
handle_user_id_input(c, u, text) ==
    IF IsInt(text)
    THEN process_user_id(c, u, text, ParseInt(text))
    ELSE /\ Handled(c, u, text, NoIO, Message("invalid_id", 0, << >>, NoLines, "none"))
         /\ conversations' = [conversations EXCEPT ![<<c, u>>] = chat_data[c]]
         /\ UNCHANGED <<file, chat_data>>

\* cancel: after the del, building the reply reads the undefined name
\* keyboard; the NameError leaves the handler, nothing is sent and the
\* conversation handler records no new state.
cancel(c, u, text) ==
    /\ chat_data' = [chat_data EXCEPT ![c] = NoState]
    /\ Handled(c, u, text, NoIO, Message("NameError", 0, << >>, NoLines, "none"))
    /\ UNCHANGED <<file, conversations>>

handle_buttons(c, u, text) ==
    \E ld \in BOOLEAN :
        LET user_data == load_users(ld) IN
        IF text \in {TEXTS.add_button, TEXTS.remove_button} /\ u # user_data.admin_id
        THEN /\ Handled(c, u, text, [load |-> ld, save |-> "none"],
                        Message("admin_only", 0, << >>, NoLines, "none"))
             /\ UNCHANGED accessVars
        ELSE IF text = TEXTS.main_button THEN get_result(c, u, text)
        ELSE IF text = TEXTS.add_button THEN add_user(c, u, text, FALSE)
        ELSE IF text = TEXTS.remove_button THEN remove_user(c, u, text, FALSE)
        ELSE /\ Handled(c, u, text, NoIO, NoReply)
             /\ UNCHANGED accessVars

(***************************************************************************)
(* Dispatch (main): the handlers of group 0 in the order they were added;  *)
(* the first whose check matches handles the update.                       *)
(***************************************************************************)
Route(c, u, text) ==
    LET state == conversations[<<c, u>>] IN
    IF state = NoState
    THEN IF text = TEXTS.add_button THEN "add_user"
         ELSE IF text = TEXTS.remove_button THEN "remove_user"
         ELSE IF ~IsCommand(text) THEN "handle_buttons"
         ELSE IF text = "/start" THEN "start"
         ELSE "none"
    ELSE IF ~IsCommand(text) THEN "handle_user_id_input"
         ELSE IF text = "/cancel" THEN "cancel"
         ELSE IF text = "/start" THEN "start"
         ELSE "none"

EntryAddUser(c, u) ==
    /\ pc = "running"
    /\ Route(c, u, TEXTS.add_button) = "add_user"
    /\ add_user(c, u, TEXTS.add_button, TRUE)

EntryRemoveUser(c, u) ==
    /\ pc = "running"
    /\ Route(c, u, TEXTS.remove_button) = "remove_user"
    /\ remove_user(c, u, TEXTS.remove_button, TRUE)

StateUserIdInput(c, u, text) ==
    /\ pc = "running"
    /\ Route(c, u, text) = "handle_user_id_input"
    /\ handle_user_id_input(c, u, text)

FallbackCancel(c, u) ==
    /\ pc = "running"
    /\ Route(c, u, "/cancel") = "cancel"
    /\ cancel(c, u, "/cancel")

TextHandleButtons(c, u, text) ==
    /\ pc = "running"
    /\ Route(c, u, text) = "handle_buttons"
    /\ handle_buttons(c, u, text)

CommandStart(c, u) ==
    /\ pc = "running"
    /\ Route(c, u, "/start") = "start"
    /\ start(c, u, "/start")

Unhandled(c, u, text) ==
    /\ pc = "running"
    /\ Route(c, u, text) = "none"
    /\ Handled(c, u, text, NoIO, NoReply)
    /\ UNCHANGED accessVars

(***************************************************************************)
(* Specifications                                                          *)
(***************************************************************************)
Query ==
    \E c \in Chats, u \in Users :
        \/ TextHandleButtons(c, u, TEXTS.main_button)
        \/ CommandStart(c, u)

NextCache ==
    \/ InitCache
    \/ UpdateCache
    \/ Query

\* The cache and its refresh job, with the queries that read it.
SpecCache == Init /\ [][NextCache]_vars

\* The same, with the resolution step allowed to run again.
NextResolve ==
    \/ InitCache
    \/ ReInitCache
    \/ UpdateCache

SpecResolve == Init /\ [][NextResolve]_vars

\* Startup outcomes used where the cache is only read: nothing resolved, and
\* every key resolved with a total.
SampleFinds ==
    { [key \in Keys |-> [kind |-> "not_found", row |-> 0, col |-> 0, value |-> None]],
      [key \in Keys |-> [kind |-> "found", row |-> 1, col |-> 1, value |-> "100"]] }

InitCacheSample == StartUp(SampleFinds)

Messages ==
    \E c \in Chats, u \in Users :
        \/ EntryAddUser(c, u)
        \/ EntryRemoveUser(c, u)
        \/ FallbackCancel(c, u)
        \/ CommandStart(c, u)
        \/ \E text \in Texts :
              \/ StateUserIdInput(c, u, text)
              \/ TextHandleButtons(c, u, text)
              \/ Unhandled(c, u, text)

NextAccess ==
    \/ InitCacheSample
    \/ Messages

\* The handlers of incoming updates, over one startup of the cache.
SpecAccess == Init /\ [][NextAccess]_vars

Next ==
    \/ InitCache
    \/ UpdateCache
    \/ Messages

\* The whole program.
Spec == Init /\ [][Next]_vars


(***************************************************************************)
(* Properties                                                              *)
(***************************************************************************)
\* The allowed users the file holds.
StoredUsers(f) == IF f.state = "ok" THEN Range(f.allowed_users) ELSE {}

\* The last step was a query (start or get_result), answered or denied.
Answered == reply.kind \in {"start_message", "result"}
Denied == reply.kind = "access_denied"
QueryDone == Answered \/ Denied

\* The read of key was made in a cycle with outcomes reads: the key has a
\* location and no key before it in the loop raised.
ReadPerformed(cache, reads, key) ==
    /\ Resolved(cache, key)
    /\ \A i \in 1 .. Len(KeyOrder) :
          (\E j \in 1 .. Len(KeyOrder) : j > i /\ KeyOrder[j] = key)
             => ~(Resolved(cache, KeyOrder[i]) /\ reads[KeyOrder[i]] = ReadError)

\* C1: a conversation enters AwaitingAddId or AwaitingRemoveId only on a
\* trigger sent by the admin, and no update sent by another identity changes
\* the stored allowed users.
C1_OnlyAdminEntersOrChanges ==
    [][ /\ \A cu \in Chats \X Users :
              (conversations[cu] = NoState /\ conversations'[cu] # NoState)
                 => update'.user = ADMIN_ID
        /\ StoredUsers(file') # StoredUsers(file) => update'.user = ADMIN_ID ]_vars

\* C2 as stated: a query is answered iff the sender is the admin or is in the
\* allowed users as currently stored; everyone else is denied and gets no
\* values.
C2_AnsweredIffStored ==
    QueryDone =>
        /\ Answered <=> (update.user = ADMIN_ID \/ update.user \in StoredUsers(file))
        /\ Denied => reply.arg = update.user /\ reply.lines = NoLines

\* C2 amended: a query is answered iff the sender is the admin, or the read
\* of the file succeeds and the sender is in the stored allowed users; every
\* other query gets the denial with the sender's id and no values.
C2_AnsweredIffLoaded ==
    QueryDone =>
        /\ Answered <=> (update.user = ADMIN_ID
                          \/ (io.load /\ update.user \in StoredUsers(file)))
        /\ Denied => reply.arg = update.user /\ reply.lines = NoLines

\* C2 witness: a stored allowed user who is not the admin is given the totals,
\* with a value among them.
C2_Witness ==
    /\ reply.kind = "result"
    /\ update.user # ADMIN_ID
    /\ update.user \in StoredUsers(file)
    /\ \E key \in Keys : reply.lines[key] = "100"

\* C3: a submission whose save fails is not reported as done, and no add or
\* remove is reported as done while the stored allowed users are unchanged.
C3_FailedSaveIsReported ==
    [][ /\ io'.save \in {"open_fails", "write_fails"}
              => reply'.kind \notin {"added", "removed"}
        /\ reply'.kind \in {"added", "removed"}
              => StoredUsers(file') # StoredUsers(file) ]_vars

\* C4: when the removal of x (not the admin) has just been reported as done,
\* a query by x that comes next is denied.
C4_RemovedIsDenied ==
    [][ ( /\ reply.kind = "removed"
          /\ reply.arg # ADMIN_ID
          /\ update'.user = reply.arg
          /\ reply'.kind \in {"start_message", "result", "access_denied"} )
        => reply'.kind = "access_denied" ]_vars

\* C5: in every refresh cycle, each key that has a location and whose read
\* would succeed holds the value of that read after the cycle, whichever
\* other keys fail.
C5_FailureIsolatedPerKey ==
    \A key \in Keys :
        (Resolved(cell_cache, key) /\ lastRead[key] \in CellValues)
            => cell_cache[key].value = lastRead[key]

\* C6 as stated: after a refresh whose read of a key succeeded with v, a get
\* with no refresh in between reports exactly v, the empty value included.
C6_GetReportsRead ==
    reply.kind = "result" =>
        \A key \in Keys :
            (ReadPerformed(cell_cache, lastRead, key) /\ lastRead[key] \in CellValues)
                => reply.lines[key] = lastRead[key]

\* C6 amended: after a refresh whose read of a key succeeded with v, a get with
\* no refresh in between reports exactly v when v is not empty, and the
\* placeholder when v is the empty value.
C6_GetReportsReadOrPlaceholder ==
    reply.kind = "result" =>
        \A key \in Keys :
            (ReadPerformed(cell_cache, lastRead, key) /\ lastRead[key] \in CellValues)
                => reply.lines[key] =
                      IF lastRead[key] = "" THEN TEXTS.na_value ELSE lastRead[key]

\* C6 witness: a get after a refresh that read a total for one key and the
\* empty value for another.
C6_Witness ==
    /\ reply.kind = "result"
    /\ \E k1, k2 \in Keys :
          /\ ReadPerformed(cell_cache, lastRead, k1) /\ lastRead[k1] = "100"
          /\ ReadPerformed(cell_cache, lastRead, k2) /\ lastRead[k2] = ""

\* C7: a refresh whose read of a key fails leaves that key's value, and what a
\* get reports for it, as they were before the refresh.
C7_FailedReadKeepsValue ==
    [][ update' = Job("update_cache") =>
          \A key \in Keys :
              lastRead'[key] = ReadError
                 => /\ cell_cache'[key].value = cell_cache[key].value
                    /\ DisplayValue(cell_cache'[key].value)
                          = DisplayValue(cell_cache[key].value) ]_vars

\* C7 witness: the last refresh failed to read a key that still holds a total.
C7_Witness ==
    \E key \in Keys :
        /\ lastRead[key] = ReadError
        /\ ReadPerformed(cell_cache, lastRead, key)
        /\ cell_cache[key].value = "100"

\* C8: a key that startup left without a location is reported as the
\* placeholder in every state, whatever refresh ticks have happened.
C8_UnresolvedIsPlaceholder ==
    \A key \in Keys :
        (pc = "running" /\ ~Resolved(cell_cache, key))
            => /\ DisplayValue(cell_cache[key].value) = TEXTS.na_value
               /\ reply.kind = "result" => reply.lines[key] = TEXTS.na_value

\* C8 witness: a get, after a refresh that read another key, with a key that
\* was never resolved.
C8_Witness ==
    /\ reply.kind = "result"
    /\ \E k1, k2 \in Keys :
          /\ ~Resolved(cell_cache, k1)
          /\ Resolved(cell_cache, k2) /\ lastRead[k2] = "100"

\* C9: once a key has a location, no step changes or clears it: neither the
\* resolution step run again nor a refresh.
C9_LocationSetOnce ==
    [][ \A key \in Keys :
          cell_cache[key].pos # NoPos
             => /\ cell_cache'[key].pos = cell_cache[key].pos
                /\ cell_cache'[key].sheet = cell_cache[key].sheet ]_vars

\* C10: an input that does not parse as an integer, submitted in an awaiting
\* state, gets the invalid-format message, leaves the conversation in the
\* same state and leaves the file as it was.
C10_InvalidInputKeepsState ==
    [][ \A c \in Chats, u \in Users :
          ( /\ conversations[<<c, u>>] # NoState
            /\ update'.chat = c /\ update'.user = u
            /\ Route(c, u, update'.text) = "handle_user_id_input"
            /\ ~IsInt(update'.text) )
          => /\ reply'.kind = "invalid_id"
             /\ conversations'[<<c, u>>] = conversations[<<c, u>>]
             /\ file' = file ]_vars


\* The update handled by the step is (c, u, text), for an integer text
\* submitted while the conversation of (c, u) is in the given state.
SubmitsIn(c, u, state) ==
    /\ conversations[<<c, u>>] = state
    /\ update'.chat = c /\ update'.user = u
    /\ IsInt(update'.text)

\* How often x occurs in the list s.
Occurrences(s, x) == Cardinality({ i \in 1 .. Len(s) : s[i] = x })

\* C11: in AwaitingAddId, submitting an integer x that is not in the stored
\* allowed users adds x, persists the list and ends the conversation; submitting
\* an x that is already stored reports 'already exists', ends the conversation
\* and leaves exactly one occurrence of x.
C11_AddThenAddAgain ==
    [][ \A c \in Chats, u \in Users :
          SubmitsIn(c, u, AWAIT_USER_ID_ADD) =>
             LET x == ParseInt(update'.text) IN
             /\ conversations'[<<c, u>>] = NoState
             /\ x \notin StoredUsers(file)
                  => /\ reply'.kind = "added"
                     /\ file'.state = "ok"
                     /\ StoredUsers(file') = StoredUsers(file) \cup {x}
             /\ x \in StoredUsers(file)
                  => /\ reply'.kind = "exists"
                     /\ file'.state = "ok"
                     /\ Occurrences(file'.allowed_users, x) = 1 ]_vars

\* C12: in AwaitingRemoveId, submitting an integer x that is not in the stored
\* allowed users reports 'not found', ends the conversation and leaves the
\* file as it was.
C12_RemoveAbsentIsNoOp ==
    [][ \A c \in Chats, u \in Users :
          ( /\ SubmitsIn(c, u, AWAIT_USER_ID_REMOVE)
            /\ ParseInt(update'.text) \notin StoredUsers(file) )
          => /\ reply'.kind = "not_found"
             /\ conversations'[<<c, u>>] = NoState
             /\ file' = file ]_vars

\* C13: a cancel, whatever the state of the conversation, leaves it in None and
\* leaves the file as it was.
C13_CancelEndsConversation ==
    [][ \A c \in Chats, u \in Users :
          (update'.chat = c /\ update'.user = u /\ update'.text = "/cancel")
          => /\ conversations'[<<c, u>>] = NoState
             /\ file' = file ]_vars

\* C14: a cancel issued in AwaitingAddId or AwaitingRemoveId sends the
\* cancellation acknowledgment.
C14_CancelIsAcknowledged ==
    [][ \A c \in Chats, u \in Users :
          ( /\ conversations[<<c, u>>] # NoState
            /\ update'.chat = c /\ update'.user = u /\ update'.text = "/cancel" )
          => reply'.kind = "cancel_message" ]_vars

\* C15: a trigger sent by the admin puts the conversation in the triggered
\* state whatever its state was, and sends the listing and the prompt.
C15_TriggerSetsState ==
    [][ \A c \in Chats :
          (update'.chat = c /\ update'.user = ADMIN_ID)
          => /\ update'.text = TEXTS.add_button
                  => /\ conversations'[<<c, ADMIN_ID>>] = AWAIT_USER_ID_ADD
                     /\ reply'.kind = "add_user_message"
             /\ update'.text = TEXTS.remove_button
                  => /\ conversations'[<<c, ADMIN_ID>>] = AWAIT_USER_ID_REMOVE
                     /\ reply'.kind = "remove_user_message" ]_vars

\* The action the next integer submitted in the conversation of cu performs:
\* process_user_id branches on the chat's current_state.
PendingAction(cu) == chat_data[cu[1]]

\* C16: a step of one conversation changes neither the state of another
\* conversation nor the action the other's next submitted integer performs.
C16_ConversationsIndependent ==
    [][ \A cu \in Chats \X Users, other \in Chats \X Users :
          ( /\ other # cu
            /\ update'.chat = cu[1] /\ update'.user = cu[2] )
          => /\ conversations'[other] = conversations[other]
             /\ conversations[other] # NoState
                  => PendingAction(other)' = PendingAction(other) ]_vars

(***************************************************************************)
(* The event loop, statement by statement.  process_user_id is followed    *)
(* through its statements for two pending updates (of two chats: the state *)
(* and the id each run works on are its own), and update_cache through the *)
(* keys of its loop for two firings of the job.                            *)
(***************************************************************************)
\* A run of process_user_id is between two awaits from its first statement
\* to the save (the reply is its first await); it is in flight until it
\* returns.
RunBusy(run) == run.stage \in {"started", "loaded"}
RunInFlight(run) == run.stage \in {"started", "loaded", "saved"}
\* update_cache has no await: a firing is between two awaits for its whole loop.
TickBusy(i) == i # 0

BusyBesidesRun(h) ==
    \/ \E o \in Handlers \ {h} : RunBusy(tasks.sub[o])
    \/ \E t \in Ticks : TickBusy(tasks.tick[t])

BusyBesidesTick(t) ==
    \/ \E h \in Handlers : RunBusy(tasks.sub[h])
    \/ \E o \in Ticks \ {t} : TickBusy(tasks.tick[o])

HandlingBesides(h) == \E o \in Handlers \ {h} : RunInFlight(tasks.sub[o])

\* Tasks that run on threads: any of them takes its next step at any time.
MayRunThreads(busy, fresh, handling) == TRUE

\* The asyncio event loop of run_polling, with the application's default of
\* handling one update at a time: a task takes a step only while no other
\* task is between two awaits (busy), and the handler of a new update (fresh)
\* starts only when no other update's handler is in flight (handling).
MayRun(busy, fresh, handling) == ~busy /\ (fresh => ~handling)

\* Whether process_user_id writes the file, and what it passes to save_users.
WritesFile(state, user_id, user_data) ==
    \/ state = AWAIT_USER_ID_ADD /\ user_id \notin Range(user_data.allowed_users)
    \/ state = AWAIT_USER_ID_REMOVE /\ user_id \in Range(user_data.allowed_users)

Mutated(state, user_id, user_data) ==
    IF state = AWAIT_USER_ID_ADD
    THEN [user_data EXCEPT !.allowed_users = Append(@, user_id)]
    ELSE [user_data EXCEPT !.allowed_users = ListRemove(@, user_id)]

\* The file after one whole run of process_user_id on the file f.
Submitted(f, run) ==
    LET user_data == read_users(f, run.ld) IN
    IF WritesFile(run.state, run.user_id, user_data)
    THEN write_users(f, Mutated(run.state, run.user_id, user_data), run.sv)
    ELSE f

RunInputs ==
    [stage : {"queued"}, state : {AWAIT_USER_ID_ADD, AWAIT_USER_ID_REMOVE},
     user_id : Users, ld : BOOLEAN, sv : SaveOutcomes, user_data : {IdleRun.user_data}]

\* Two integers are submitted, each in a conversation that awaits an id.
Arrive ==
    /\ pc = "running"
    /\ \A h \in Handlers : tasks.sub[h].stage = "idle"
    /\ \E runs \in [Handlers -> RunInputs] :
          tasks' = [tasks EXCEPT !.base = file, !.sub = runs]
    /\ UNCHANGED <<cacheVars, accessVars, update, io, reply>>

\* The application starts the handler of the update.
Dispatch(h) ==
    /\ tasks.sub[h].stage = "queued"
    /\ MayRun(BusyBesidesRun(h), TRUE, HandlingBesides(h))
    /\ tasks' = [tasks EXCEPT !.sub[h].stage = "started"]
    /\ UNCHANGED <<cacheVars, accessVars, update, io, reply>>

\* user_data = load_users()
Load(h) ==
    /\ tasks.sub[h].stage = "started"
    /\ MayRun(BusyBesidesRun(h), FALSE, HandlingBesides(h))
    /\ tasks' = [tasks EXCEPT !.sub[h].stage = "loaded",
                              !.sub[h].user_data = load_users(tasks.sub[h].ld)]
    /\ UNCHANGED <<cacheVars, accessVars, update, io, reply>>

\* The branch on current_state, the change of the list and save_users.
Save(h) ==
    LET run == tasks.sub[h] IN
    /\ run.stage = "loaded"
    /\ MayRun(BusyBesidesRun(h), FALSE, HandlingBesides(h))
    /\ file' = IF WritesFile(run.state, run.user_id, run.user_data)
               THEN save_users(Mutated(run.state, run.user_id, run.user_data), run.sv)
               ELSE file
    /\ tasks' = [tasks EXCEPT !.sub[h].stage = "saved"]
    /\ UNCHANGED <<cacheVars, conversations, chat_data, update, io, reply>>

\* await reply_text(..) returns, and the handler returns END.
Reply(h) ==
    /\ tasks.sub[h].stage = "saved"
    /\ MayRun(BusyBesidesRun(h), FALSE, HandlingBesides(h))
    /\ tasks' = [tasks EXCEPT !.sub[h].stage = "done"]
    /\ UNCHANGED <<cacheVars, accessVars, update, io, reply>>

\* Both handlers have returned: nothing of their runs is left.
Returned ==
    /\ \A h \in Handlers : tasks.sub[h].stage = "done"
    /\ tasks' = [tasks EXCEPT !.sub = IdleTasks.sub]
    /\ UNCHANGED <<cacheVars, accessVars, update, io, reply>>

\* The repeating job fires: update_cache is entered.
TickStart(t) ==
    /\ pc = "running"
    /\ tasks.tick[t] = 0
    /\ MayRun(BusyBesidesTick(t), FALSE, FALSE)
    /\ tasks' = [tasks EXCEPT !.tick[t] = 1]
    /\ lastRead' = [key \in Keys |-> NotRead]
    /\ update' = Job("update_cache")
    /\ io' = NoIO
    /\ reply' = NoReply
    /\ UNCHANGED <<pc, cell_cache, accessVars>>

NextKey(i) == IF i = Len(KeyOrder) THEN 0 ELSE i + 1

\* One pass of the loop of update_cache.
TickKey(t) ==
    LET i == tasks.tick[t]
        key == KeyOrder[i]
    IN  /\ TickBusy(i)
        /\ MayRun(BusyBesidesTick(t), FALSE, FALSE)
        /\ IF Resolved(cell_cache, key)
           THEN \E r \in CellValues \cup {ReadError} :
                   /\ lastRead' = [lastRead EXCEPT ![key] = r]
                   /\ IF r = ReadError
                      THEN /\ cell_cache' = OnReadError(cell_cache, key)
                           /\ tasks' = [tasks EXCEPT !.tick[t] = 0]
                      ELSE /\ cell_cache' = [cell_cache EXCEPT ![key].value = r]
                           /\ tasks' = [tasks EXCEPT !.tick[t] = NextKey(i)]
           ELSE /\ tasks' = [tasks EXCEPT !.tick[t] = NextKey(i)]
                /\ UNCHANGED <<cell_cache, lastRead>>
        /\ UNCHANGED <<pc, accessVars, update, io, reply>>

\* A query is an update: its handler starts when the loop is free.
QueryWhenFree ==
    /\ MayRun(BusyBesidesTick(0), TRUE, \E h \in Handlers : RunInFlight(tasks.sub[h]))
    /\ Query

\* A firing of the job as one step (update_cache has no await).
JobWhenFree ==
    /\ MayRun(BusyBesidesTick(0), FALSE, FALSE)
    /\ UpdateCache

\* Startup that resolves no key.
InitCacheUnresolved ==
    StartUp({[key \in Keys |-> [kind |-> "not_found", row |-> 0, col |-> 0, value |-> None]]})

NextSubmit ==
    \/ InitCacheUnresolved
    \/ Arrive
    \/ \E h \in Handlers : Dispatch(h) \/ Load(h) \/ Save(h) \/ Reply(h)
    \/ Returned
    \/ JobWhenFree

\* Two submissions and the job, statement by statement.
SpecSubmit == Init /\ [][NextSubmit]_vars

NextTicks ==
    \/ InitCache
    \/ \E t \in Ticks : TickStart(t) \/ TickKey(t)
    \/ QueryWhenFree

\* The job's firings, key by key, and the queries.
SpecTicks == Init /\ [][NextTicks]_vars

BothDone == \A h \in Handlers : tasks.sub[h].stage = "done"

\* C17: whatever the interleaving of two submissions with each other and with
\* the refresh job, the file they leave is the one the two runs of
\* process_user_id leave when one runs after the other, in one of the two
\* orders: no write of one is lost to the other.
C17_SubmissionsSerial ==
    BothDone =>
       \/ file = Submitted(Submitted(tasks.base, tasks.sub[1]), tasks.sub[2])
       \/ file = Submitted(Submitted(tasks.base, tasks.sub[2]), tasks.sub[1])

\* Two adds of different ids have run, and the file holds both.
C17_Witness ==
    /\ BothDone
    /\ \A h \in Handlers : tasks.sub[h].state = AWAIT_USER_ID_ADD
    /\ tasks.sub[1].user_id # tasks.sub[2].user_id
    /\ StoredUsers(tasks.base) = {}
    /\ StoredUsers(file) = {tasks.sub[1].user_id, tasks.sub[2].user_id}

\* C18: two firings of update_cache are never in their loops at the same time;
\* the value of a key is unset or the output of a read of that key, and the
\* output of the cycle's read once it has been made; a query runs between
\* firings and reports each key's value or the placeholder.
C18_RefreshNotInterleaved ==
    /\ \A t \in Ticks, o \in Ticks : (TickBusy(tasks.tick[t]) /\ TickBusy(tasks.tick[o])) => t = o
    /\ \A key \in Keys :
          /\ cell_cache[key].value \in CellValues \cup {None}
          /\ lastRead[key] \in CellValues => cell_cache[key].value = lastRead[key]
    /\ reply.kind = "result" =>
          /\ \A t \in Ticks : ~TickBusy(tasks.tick[t])
          /\ \A key \in Keys : reply.lines[key] = DisplayValue(cell_cache[key].value)

\* A query after a cycle that refreshed one key and failed on a later one.
C18_Witness ==
    /\ reply.kind = "result"
    /\ lastRead["income"] = "100" /\ reply.lines["income"] = "100"
    /\ \E key \in Keys : lastRead[key] = ReadError

\* C19: for every (chat, sender), the state the conversation handler holds and
\* the chat's current_state are the same.
C19_RecordsAgree ==
    \A cu \in Chats \X Users : conversations[cu] = chat_data[cu[1]]

\* C20: an add that is reported as done leaves the stored allowed users equal
\* to the ones stored before plus x, and the stored admin id as it was.
C20_AddKeepsMembers ==
    [][ reply'.kind = "added" =>
          /\ file'.state = "ok"
          /\ StoredUsers(file') = StoredUsers(file) \cup {reply'.arg}
          /\ file'.admin_id = (IF file.state = "ok" THEN file.admin_id ELSE ADMIN_ID) ]_vars

====
